---------------------------- MODULE Spec2Model ----------------------------
(***************************************************************************)
(* Robotino point-to-point controller: the control loop of main.py and the *)
(* fuzzy navigation controller of navigation.py.                           *)
(*                                                                         *)
(* Numbers.  Distances, offsets and sensor readings are integers in units *)
(* of 1e-5 m (0.20 m = 20000).  Membership degrees are integers in units  *)
(* of 1/DEG (1.0 = DEG).  Velocities are exact rationals <<n, d>> in      *)
(* units of 0.01 m/s (0.30 m/s = <<30, 1>>), kept in lowest terms with    *)
(* d > 0, so that equal velocities are equal values.  Floating-point      *)
(* rounding is modelled where it decides a branch on these values: in the *)
(* comparison of the distance with the tolerance, at equality.            *)
(***************************************************************************)
EXTENDS Integers, Sequences, FiniteSets, TLC

\* Python's None; a value that is present is never the empty tuple
None == <<>>

(***************************************************************************)
(* Program constants (scaled to the units above).                          *)
(***************************************************************************)
OBSTACLE_THRESHOLD == 20000
SENSOR_LIMIT == 41000
POINT_X == 100000
POINT_Y == 100000
MAX_VELOCITY == 30
POINT_TOLERANCE == 2000
EPS == 10

\* full membership (1.0) and the grid step of every universe (0.01)
DEG == 100 * 1000
STEP == 10 * 100

(***************************************************************************)
(* Integer and rational helpers.                                           *)
(***************************************************************************)
Abs(x) == IF x < 0 THEN -x ELSE x
Min2(a, b) == IF a <= b THEN a ELSE b
Max2(a, b) == IF a >= b THEN a ELSE b

RECURSIVE Gcd(_, _)
Gcd(a, b) == IF b = 0 THEN a ELSE Gcd(b, a % b)

\* the rational n/d (d # 0) in lowest terms with a positive denominator
Rat(n, d) ==
    LET g == Gcd(Abs(n), Abs(d))
        s == IF d < 0 THEN -1 ELSE 1
    IN  <<(s * n) \div g, (s * d) \div g>>

RatInt(k) == <<k, 1>>
RatZero == <<0, 1>>
RatLess(p, q) == p[1] * q[2] < q[1] * p[2]
RatLeq(p, q) == p[1] * q[2] <= q[1] * p[2]
RatMin(p, q) == IF RatLess(q, p) THEN q ELSE p
RatMax(p, q) == IF RatLess(p, q) THEN q ELSE p

\* p * q, cross-reduced before multiplying
RatMul(p, q) ==
    LET g1 == Gcd(Abs(p[1]), q[2])
        g2 == Gcd(Abs(q[1]), p[2])
    IN  Rat((p[1] \div g1) * (q[1] \div g2), (p[2] \div g2) * (q[2] \div g1))

(***************************************************************************)
(* Fuzzy variables (navigation.py, __init__ and _init_sensors).            *)
(***************************************************************************)
Sensors == <<"left_front", "left_rear", "front", "right_front",
             "right_rear", "back_left", "back_right">>
SensorNames == {Sensors[i] : i \in 1..7}
Positions == {"position_x", "position_y"}
Antecedents == Positions \cup SensorNames
Consequents == {"velocity_x", "velocity_y"}

\* first and last sample of np.arange(lo, hi, 0.01)
UniverseMin(var) == IF var \in Positions THEN -200000 ELSE 0
UniverseMax(var) == IF var \in Positions THEN 200000 - STEP
                    ELSE SENSOR_LIMIT - STEP

\* sample indices of the velocity universes np.arange(-0.3, 0.3, 0.01),
\* sample i being i * 0.01 m/s
VelocityGrid == (-30)..29

(***************************************************************************)
(* Membership functions (navigation.py, _configure_membership).            *)
(* A triangle [a, b, c] is the trapezoid [a, b, b, c].                     *)
(***************************************************************************)
Trapmf(x, p) ==
    IF x < p[1] \/ x > p[4] THEN 0
    ELSE IF x < p[2] THEN (x - p[1]) * (DEG \div (p[2] - p[1]))
    ELSE IF x <= p[3] THEN DEG
    ELSE (p[4] - x) * (DEG \div (p[4] - p[3]))

PositionMF(dir_neg, dir_pos) ==
    [l \in {"far_" \o dir_neg, "near_" \o dir_neg, "center",
            "near_" \o dir_pos, "far_" \o dir_pos} |->
        CASE l = "far_" \o dir_neg  -> <<-200000, -150000, -25000, -20000>>
          [] l = "near_" \o dir_neg -> <<-25000, -20000, -4000, 0>>
          [] l = "center"           -> <<-4000, 0, 0, 4000>>
          [] l = "near_" \o dir_pos -> <<0, 4000, 20000, 25000>>
          [] l = "far_" \o dir_pos  -> <<20000, 25000, 150000, 200000>>]

SensorMF ==
    [l \in {"dangerous", "safe"} |->
        IF l = "dangerous" THEN <<0, 0, 20000, 25000>>
        ELSE <<20000, 25000, 41000, 41000>>]

\* _configure_velocity(var, neg_dir, pos_dir)
configure_velocity(neg_dir, pos_dir) ==
    [l \in {neg_dir \o "_fast", neg_dir \o "_med", neg_dir \o "_slow", "stop",
            pos_dir \o "_slow", pos_dir \o "_med", pos_dir \o "_fast"} |->
        CASE l = neg_dir \o "_fast" -> <<-30000, -30000, -22000, -20000>>
          [] l = neg_dir \o "_med"  -> <<-22000, -20000, -12000, -10000>>
          [] l = neg_dir \o "_slow" -> <<-12000, -10000, -2500, 0>>
          [] l = "stop"             -> <<-2500, 0, 0, 2500>>
          [] l = pos_dir \o "_slow" -> <<0, 2500, 10000, 12000>>
          [] l = pos_dir \o "_med"  -> <<10000, 12000, 20000, 22000>>
          [] l = pos_dir \o "_fast" -> <<20000, 22000, 30000, 30000>>]

Membership ==
    [v \in Antecedents \cup Consequents |->
        CASE v = "position_x" -> PositionMF("back", "front")
          [] v = "position_y" -> PositionMF("right", "left")
          [] v = "velocity_x" -> configure_velocity("backward", "forward")
          [] v = "velocity_y" -> configure_velocity("right", "left")
          [] OTHER            -> SensorMF]

\* the order in which an output variable's terms are held
VelocityLabels(v) ==
    IF v = "velocity_x"
    THEN <<"backward_fast", "backward_med", "backward_slow", "stop",
           "forward_slow", "forward_med", "forward_fast">>
    ELSE <<"right_fast", "right_med", "right_slow", "stop",
           "left_slow", "left_med", "left_fast">>

\* the membership functions of an output variable's terms, in that order
TermShapes(v) ==
    LET mf == Membership[v]
        labels == VelocityLabels(v)
    IN  <<mf[labels[1]], mf[labels[2]], mf[labels[3]], mf[labels[4]],
          mf[labels[5]], mf[labels[6]], mf[labels[7]]>>

(***************************************************************************)
(* Rule expressions.  skfuzzy builds the antecedent tree with Python's     *)
(* operators: & binds tighter than |, and both associate to the left, so   *)
(* a & b & c & d | e is ((((a & b) & c) & d) | e).                         *)
(***************************************************************************)
Term(v, l) == [op |-> "term", var |-> v, label |-> l]
AND(a, b) == [op |-> "and", left |-> a, right |-> b]
OR(a, b) == [op |-> "or", left |-> a, right |-> b]
And3(a, b, c) == AND(AND(a, b), c)
And4(a, b, c, d) == AND(AND(AND(a, b), c), d)

\* ctrl.Rule(antecedent, consequent), the consequent a tuple of output terms
Rule(ant, cons) == [antecedent |-> ant, consequent |-> cons]
VX(l) == <<"velocity_x", l>>
VY(l) == <<"velocity_y", l>>

\* self.goal_rules
goal_rules ==
    << Rule(Term("position_x", "far_back"),   <<VX("backward_fast")>>),
       Rule(Term("position_x", "near_back"),  <<VX("backward_slow")>>),
       Rule(Term("position_x", "center"),     <<VX("stop")>>),
       Rule(Term("position_x", "near_front"), <<VX("forward_slow")>>),
       Rule(Term("position_x", "far_front"),  <<VX("forward_fast")>>),
       Rule(Term("position_y", "far_right"),  <<VY("right_fast")>>),
       Rule(Term("position_y", "near_right"), <<VY("right_slow")>>),
       Rule(Term("position_y", "center"),     <<VY("stop")>>),
       Rule(Term("position_y", "near_left"),  <<VY("left_slow")>>),
       Rule(Term("position_y", "far_left"),   <<VY("left_fast")>>) >>

\* _create_dynamic_rules
create_dynamic_rules ==
    << Rule(AND(Term("position_x", "near_front"), Term("left_front", "dangerous")),
            <<VX("forward_slow"), VY("right_slow")>>),
       Rule(AND(Term("position_x", "near_front"), Term("right_front", "dangerous")),
            <<VX("forward_slow"), VY("left_slow")>>),
       Rule(AND(Term("position_y", "near_left"), Term("front", "dangerous")),
            <<VX("backward_slow"), VY("right_slow")>>),
       Rule(AND(Term("position_y", "near_right"), Term("front", "dangerous")),
            <<VX("backward_slow"), VY("left_slow")>>),
       Rule(AND(OR(Term("position_y", "far_left"), Term("position_y", "far_right")),
                Term("front", "safe")),
            <<VX("forward_fast"), VY("stop")>>) >>

\* _create_obstacle_rules, in the order of the source list
create_obstacle_rules ==
    LET lf(l) == Term("left_front", l)
        lr(l) == Term("left_rear", l)
        fr(l) == Term("front", l)
        rf(l) == Term("right_front", l)
        rr(l) == Term("right_rear", l)
        bl(l) == Term("back_left", l)
        br(l) == Term("back_right", l)
        py(l) == Term("position_y", l)
        D == "dangerous"
        S == "safe"
    IN
    << \* front obstacles
       Rule(OR(And4(lf(S), fr(D), rf(S), py("far_left")), py("near_left")),
            <<VX("backward_med"), VY("left_med")>>),
       Rule(OR(And4(lf(S), fr(D), rf(S), py("far_right")), py("near_right")),
            <<VX("backward_med"), VY("right_med")>>),
       Rule(And3(lf(D), fr(D), rf(S)), <<VX("backward_med"), VY("right_med")>>),
       Rule(And3(lf(S), fr(D), rf(D)), <<VX("backward_med"), VY("left_med")>>),
       Rule(OR(And4(lf(D), fr(D), rf(D), py("far_left")), py("near_left")),
            <<VX("backward_fast"), VY("left_med")>>),
       Rule(OR(And4(lf(D), fr(D), rf(D), py("far_right")), py("near_right")),
            <<VX("backward_fast"), VY("right_med")>>),
       \* left obstacles
       Rule(And3(fr(D), lf(D), lr(D)), <<VX("stop"), VY("right_fast")>>),
       Rule(And3(fr(S), lf(D), lr(D)), <<VX("forward_med"), VY("right_med")>>),
       Rule(And3(fr(S), lf(D), lr(S)), <<VX("forward_med"), VY("right_med")>>),
       Rule(And3(fr(S), lf(S), lr(D)), <<VX("forward_med"), VY("right_med")>>),
       \* right obstacles
       Rule(And3(fr(D), rf(D), rr(D)), <<VX("stop"), VY("left_fast")>>),
       Rule(And3(fr(S), rf(D), rr(D)), <<VX("forward_med"), VY("left_med")>>),
       Rule(And3(fr(S), rf(D), rr(S)), <<VX("forward_med"), VY("left_med")>>),
       Rule(And3(fr(S), rf(S), rr(D)), <<VX("forward_med"), VY("left_med")>>),
       \* rear obstacles
       Rule(OR(And3(bl(D), br(D), py("far_left")), py("near_left")),
            <<VX("forward_fast"), VY("left_med")>>),
       Rule(OR(And3(bl(D), br(D), py("far_right")), py("near_right")),
            <<VX("forward_fast"), VY("left_med")>>),
       Rule(AND(bl(D), br(S)), <<VX("forward_med"), VY("right_med")>>),
       Rule(AND(br(D), bl(S)), <<VX("forward_med"), VY("left_med")>>),
       \* obstacles on several sides
       Rule(AND(lr(D), rr(D)), <<VX("forward_fast"), VY("stop")>>),
       Rule(And3(lr(D), lf(D), rr(D)), <<VX("forward_fast"), VY("right_fast")>>),
       Rule(And3(lr(D), rf(D), rr(D)), <<VX("forward_fast"), VY("left_fast")>>),
       Rule(OR(And4(lr(D), fr(D), rr(D), py("far_left")), py("near_left")),
            <<VX("backward_fast"), VY("left_med")>>),
       Rule(OR(And4(lr(D), fr(D), rr(D), py("far_right")), py("near_right")),
            <<VX("backward_fast"), VY("right_med")>>)
    >> \o create_dynamic_rules

\* self.obstacle_rules
obstacle_rules == create_obstacle_rules

(***************************************************************************)
(* The inference engine (skfuzzy ControlSystemSimulation).                 *)
(***************************************************************************)
\* an input is clipped to its variable's universe when it is assigned
ClipToUniverse(var, x) == Max2(UniverseMin(var), Min2(UniverseMax(var), x))

\* degree of membership of the crisp value x in var[label]
Fuzzify(var, label, x) == Trapmf(x, Membership[var][label])

\* the variables an antecedent expression reads
RECURSIVE VarsOf(_)
VarsOf(e) ==
    IF e.op = "term" THEN {e.var}
    ELSE VarsOf(e.left) \cup VarsOf(e.right)

\* the antecedent variables of a control system: those its rules read
SystemAntecedents(rules) ==
    UNION {VarsOf(rules[i].antecedent) : i \in DOMAIN rules}

\* firing strength: fmin for &, fmax for |
RECURSIVE Firing(_, _)
Firing(e, input) ==
    IF e.op = "term" THEN Fuzzify(e.var, e.label, input[e.var][1])
    ELSE IF e.op = "and" THEN Min2(Firing(e.left, input), Firing(e.right, input))
    ELSE Max2(Firing(e.left, input), Firing(e.right, input))

\* the largest of rules[k..]'s firing strengths among the rules that name
\* the output term t (accumulation by fmax); 0 when no rule names it
RECURSIVE TermCut(_, _, _, _)
TermCut(rules, strengths, t, k) ==
    IF k > Len(rules) THEN 0
    ELSE LET rest == TermCut(rules, strengths, t, k + 1)
         IN  IF \E j \in DOMAIN rules[k].consequent : rules[k].consequent[j] = t
             THEN Max2(strengths[k], rest)
             ELSE rest

RECURSIVE Strengths(_, _, _)
Strengths(rules, input, k) ==
    IF k > Len(rules) THEN <<>>
    ELSE <<Firing(rules[k].antecedent, input)>> \o Strengths(rules, input, k + 1)

\* aggregated membership at sample i of the universe (the value i * 0.01):
\* max over the terms of the term's sampled membership clipped at its cut;
\* a term no rule has fired contributes nothing
Aggregate(shapes, cuts, i) ==
    LET m(k) == IF cuts[k] = 0 THEN 0
                ELSE Min2(cuts[k], Trapmf(i * STEP, shapes[k]))
    IN  Max2(Max2(Max2(m(1), m(2)), Max2(m(3), m(4))),
             Max2(Max2(m(5), m(6)), m(7)))

\* <<sum of mu, sum of x * mu>> over the samples lo..hi
RECURSIVE Sums(_, _, _, _)
Sums(shapes, cuts, lo, hi) ==
    IF lo = hi
    THEN LET a == Aggregate(shapes, cuts, lo) IN <<a, lo * a>>
    ELSE LET mid == (lo + hi) \div 2
             l == Sums(shapes, cuts, lo, mid)
             r == Sums(shapes, cuts, mid + 1, hi)
         IN  <<l[1] + r[1], l[2] + r[2]>>

\* centroid of the aggregated set over the universe samples, in 0.01 m/s
Centroid(sums) == Rat(sums[2], sums[1])

\* Where the library keeps an assigned input.  position_x and position_y
\* are one Antecedent object each, used by the rules of both control
\* systems, and the library is not part of the repository: its releases
\* either keep the value per simulation ("simulation") or keep it on the
\* Antecedent and copy the values of all antecedents of the system into the
\* simulation on every assignment ("antecedent").  Both are modelled; a
\* controller keeps the one it was built with.
InputStores == {"simulation", "antecedent"}

\* the input values of a set of variables before any input was assigned
NoInputs(variables) == [v \in variables |-> None]

\* n.<sim>.input[key] = value on controller n, sim being "goal_sim" or
\* "obstacle_sim"; an assigned input v is held as <<v>>, clipped to the
\* universe
SetInput(n, sim, key, value) ==
    LET v == <<ClipToUniverse(key, value)>>
    IN  IF n.store = "antecedent"
        THEN LET a == [n.antecedents EXCEPT ![key] = v]
             IN  [n EXCEPT !.antecedents = a,
                           ![sim] = [k \in DOMAIN n[sim] |-> a[k]]]
        ELSE [n EXCEPT ![sim] = [n[sim] EXCEPT ![key] = v]]

Failure(why) ==
    [ok |-> FALSE, error |-> why, velocity_x |-> None, velocity_y |-> None]

\* sim.compute() on the inputs the simulation holds: raises when an
\* antecedent of the system has no input and when no rule fires for an
\* output (empty aggregated set)
Compute(rules, input) ==
    IF \E v \in SystemAntecedents(rules) : input[v] = None
    THEN Failure("All antecedents must have input values!")
    ELSE
    LET s == Strengths(rules, input, 1)
        cut(v, k) == TermCut(rules, s, <<v, VelocityLabels(v)[k]>>, 1)
        cx == <<cut("velocity_x", 1), cut("velocity_x", 2), cut("velocity_x", 3),
                cut("velocity_x", 4), cut("velocity_x", 5), cut("velocity_x", 6),
                cut("velocity_x", 7)>>
        cy == <<cut("velocity_y", 1), cut("velocity_y", 2), cut("velocity_y", 3),
                cut("velocity_y", 4), cut("velocity_y", 5), cut("velocity_y", 6),
                cut("velocity_y", 7)>>
        sx == Sums(TermShapes("velocity_x"), cx, -30, 29)
        sy == Sums(TermShapes("velocity_y"), cy, -30, 29)
    IN  IF sx[1] = 0 \/ sy[1] = 0
        THEN Failure("Crisp output cannot be calculated")
        ELSE [ok |-> TRUE, error |-> None,
              velocity_x |-> Centroid(sx), velocity_y |-> Centroid(sy)]

(***************************************************************************)
(* NavigationController.  A controller's state is the input maps of its    *)
(* two simulation objects, which live as long as the controller.           *)
(***************************************************************************)
\* _init_control_systems
init_control_systems(store) ==
    [store |-> store,
     antecedents |-> NoInputs(Antecedents),
     obstacle_sim |-> NoInputs(SystemAntecedents(obstacle_rules)),
     goal_sim |-> NoInputs(SystemAntecedents(goal_rules))]

\* np.clip(v, lo, hi)
NpClip(v, lo, hi) == RatMin(RatMax(v, lo), hi)

\* _has_obstacles(sensors)
has_obstacles_le(sensors) ==
    \E i \in DOMAIN sensors : sensors[i] <= OBSTACLE_THRESHOLD
has_obstacles(sensors) ==
    \E i \in DOMAIN sensors : sensors[i] < OBSTACLE_THRESHOLD

\* _adjust_speeds(dx, dy, vx, vy)
adjust_speeds_ge(dx, dy, vx, vy) ==
    LET main_axis == Max2(Max2(Abs(dx), Abs(dy)), EPS)
        scale_factor == Rat(Min2(Abs(dx), Abs(dy)), main_axis)
    IN  IF Abs(dx) >= Abs(dy)
        THEN <<NpClip(vx, RatInt(-30), RatInt(30)),
               NpClip(RatMul(vy, scale_factor), RatInt(-30), RatInt(30))>>
        ELSE <<NpClip(RatMul(vx, scale_factor), RatInt(-30), RatInt(30)),
               NpClip(vy, RatInt(-30), RatInt(30))>>
adjust_speeds(dx, dy, vx, vy) ==
    LET main_axis == Max2(Max2(Abs(dx), Abs(dy)), EPS)
        scale_factor == Rat(Min2(Abs(dx), Abs(dy)), main_axis)
    IN  IF Abs(dx) > Abs(dy)
        THEN <<NpClip(vx, RatInt(-30), RatInt(30)),
               NpClip(RatMul(vy, scale_factor), RatInt(-30), RatInt(30))>>
        ELSE <<NpClip(RatMul(vx, scale_factor), RatInt(-30), RatInt(30)),
               NpClip(vy, RatInt(-30), RatInt(30))>>

\* What a call leaves behind: the controller's new state, the value
\* returned (or the exception raised), and a trace of what the call did:
\* the rule set that produced the value, the rule sets on which compute()
\* was called, the result of compute() and whether _adjust_speeds ran.
Outcome(n, raised, value, mode, out, adjusted) ==
    [nav |-> n, raised |-> raised, value |-> value, mode |-> mode,
     computed |-> IF mode = "none" THEN {} ELSE {mode},
     output |-> out, adjusted |-> adjusted]

\* _move_to_target(dx, dy)
move_to_target(n, dx, dy) ==
    LET n2 == SetInput(SetInput(n, "goal_sim", "position_x", dx),
                       "goal_sim", "position_y", dy)
        out == Compute(goal_rules, n2.goal_sim)
    IN  IF out.ok
        THEN Outcome(n2, FALSE,
                     adjust_speeds(dx, dy, out.velocity_x, out.velocity_y),
                     "goal", out, TRUE)
        ELSE Outcome(n2, FALSE, <<RatZero, RatZero>>, "goal", out, FALSE)

\* the eight assignments of _avoid_obstacles, sensors first
RECURSIVE SetSensors(_, _, _)
SetSensors(n, sensor_data, k) ==
    IF k > 7 THEN n
    ELSE SetSensors(SetInput(n, "obstacle_sim", Sensors[k],
                             sensor_data[Sensors[k]]),
                    sensor_data, k + 1)

\* _avoid_obstacles(dy, sensor_data)
avoid_obstacles_uncaught(n, dy, sensor_data) ==
    LET n2 == SetInput(SetSensors(n, sensor_data, 1), "obstacle_sim",
                       "position_y", dy)
        out == Compute(obstacle_rules, n2.obstacle_sim)
    IN  IF out.ok
        THEN Outcome(n2, FALSE, <<out.velocity_x, out.velocity_y>>,
                     "obstacle", out, FALSE)
        ELSE Outcome(n2, TRUE, None, "obstacle", out, FALSE)
avoid_obstacles(n, dy, sensor_data) ==
    LET n2 == SetInput(SetSensors(n, sensor_data, 1), "obstacle_sim",
                       "position_y", dy)
        out == Compute(obstacle_rules, n2.obstacle_sim)
    IN  IF out.ok
        THEN Outcome(n2, FALSE, <<out.velocity_x, out.velocity_y>>,
                     "obstacle", out, FALSE)
        ELSE Outcome(n2, FALSE, <<RatZero, RatZero>>, "obstacle", out, FALSE)

\* calculate_velocity(dx, dy, *sensors)
calculate_velocity_both(n, dx, dy, sensors) ==
    IF Len(sensors) # 7
    THEN Outcome(n, TRUE, None, "none", Failure(None), FALSE)
    ELSE LET sensor_data == [name \in SensorNames |->
                 sensors[CHOOSE i \in 1..7 : Sensors[i] = name]]
             g == move_to_target(n, dx, dy)
             a == avoid_obstacles(g.nav, dy, sensor_data)
         IN  IF has_obstacles(sensors)
             THEN [a EXCEPT !.computed = g.computed \cup a.computed]
             ELSE g
calculate_velocity(n, dx, dy, sensors) ==
    IF Len(sensors) # 7
    THEN Outcome(n, TRUE, None, "none", Failure(None), FALSE)
    ELSE LET sensor_data == [name \in SensorNames |->
                 sensors[CHOOSE i \in 1..7 : Sensors[i] = name]]
         IN  IF has_obstacles(sensors)
             THEN avoid_obstacles(n, dy, sensor_data)
             ELSE move_to_target(n, dx, dy)

\* the inputs a call assigns, in the order of the assignments: those of
\* _avoid_obstacles with an obstacle, those of _move_to_target without
InputsAssigned(sensors) ==
    IF has_obstacles(sensors)
    THEN Sensors \o <<"position_y">>
    ELSE <<"position_x", "position_y">>

\* the first k assignments n.<sim>.input[keys[i]] = values[i]
RECURSIVE AssignInputs(_, _, _, _, _)
AssignInputs(n, sim, keys, values, k) ==
    IF k = 0 THEN n
    ELSE SetInput(AssignInputs(n, sim, keys, values, k - 1), sim,
                  keys[k], values[k])

\* the controller left by a call of calculate_velocity(dx, dy, *sensors)
\* that an exception it does not catch ends after k assignments
calculate_velocity_interrupted(n, dx, dy, sensors, k) ==
    IF has_obstacles(sensors)
    THEN AssignInputs(n, "obstacle_sim", InputsAssigned(sensors),
                      sensors \o <<dy>>, k)
    ELSE AssignInputs(n, "goal_sim", InputsAssigned(sensors), <<dx, dy>>, k)

(***************************************************************************)
(* main.py: transport results and helpers.                                 *)
(***************************************************************************)
\* read_proximity_sensors(): the 7 readings taken from the 9-element array
\* the robot returns (Python index k is index k + 1 here)
read_proximity_sensors(sensor_data) ==
    IF Len(sensor_data) # 9 THEN None
    ELSE << sensor_data[2], sensor_data[3], sensor_data[1],
            sensor_data[9], sensor_data[8],
            Min2(sensor_data[4], sensor_data[5]),
            Min2(sensor_data[7], sensor_data[6]) >>

\* fetch_odometry(): the response, when it has 7 elements
fetch_odometry(response) == IF Len(response) = 7 THEN response ELSE None

\* calculate_position_offset(current_x, current_y)
calculate_position_offset(current_x, current_y) ==
    <<POINT_X - current_x, POINT_Y - current_y>>

\* the exact distance of the offset against POINT_TOLERANCE, without
\* squaring an offset that is already larger than the tolerance
DistanceCompare(delta_x, delta_y) ==
    IF Abs(delta_x) > POINT_TOLERANCE \/ Abs(delta_y) > POINT_TOLERANCE
    THEN "greater"
    ELSE LET d2 == delta_x * delta_x + delta_y * delta_y
             t2 == POINT_TOLERANCE * POINT_TOLERANCE
         IN  IF d2 < t2 THEN "less" ELSE IF d2 = t2 THEN "equal" ELSE "greater"

\* the values math.hypot(delta_x, delta_y) <= POINT_TOLERANCE can take.  The
\* offsets are differences of floats: for an offset exactly at the tolerance
\* the rounding of the readings decides (1.0 - 0.98 is 0.020000000000000018,
\* greater than 0.02; hypot(1.0 - 1.00704, 1.0 - 0.98128) is not), so both
\* values are possible there.
WithinTolerance(delta_x, delta_y) ==
    CASE DistanceCompare(delta_x, delta_y) = "less"    -> {TRUE}
      [] DistanceCompare(delta_x, delta_y) = "equal"   -> {TRUE, FALSE}
      [] DistanceCompare(delta_x, delta_y) = "greater" -> {FALSE}

\* max(min(v, MAX_VELOCITY), -MAX_VELOCITY)
LimitVelocity(v) == RatMax(RatMin(v, RatInt(MAX_VELOCITY)), RatInt(-MAX_VELOCITY))

\* the arguments of set_movement_velocity(vx, vy, 0) in the loop
MovementCommand_omega(vx, vy) == <<LimitVelocity(vx), LimitVelocity(vy), 1>>
MovementCommand(vx, vy) == <<LimitVelocity(vx), LimitVelocity(vy), 0>>

\* the arguments of set_movement_velocity in stop()
StopCommand == <<RatZero, RatZero, 0>>

(***************************************************************************)
(* Bounds and the inputs the environment may supply.                       *)
(***************************************************************************)
\* loop iterations begun (attempts to fetch the odometry) in one run
MaxCycles == 2

Odometry(x, y) == <<x, y, 0, 0, 0, 0, 0>>

\* odometry at start-up
InitialOdometry == {Odometry(0, 0), Odometry(50000, 0)}

\* odometry during the run: at the start, on the target's y, on the target,
\* exactly at the tolerance, just outside it, and far beyond the target
LoopOdometry ==
    {Odometry(0, 0), Odometry(50000, 100000), Odometry(100000, 100000),
     Odometry(98000, 100000), Odometry(98500, 98500), Odometry(350000, 100000)}

\* an odometry response of the right length whose fields are not numbers
Malformed == <<"x", "y", "phi", "vx", "vy", "omega", "seq">>

Far == SENSOR_LIMIT
\* distance sensor arrays: nothing near, front blocked, one rear-left sensor
\* of the pair blocked
SensorArrays ==
    { <<Far, Far, Far, Far, Far, Far, Far, Far, Far>>,
      <<10000, Far, Far, Far, Far, Far, Far, Far, Far>>,
      <<Far, Far, Far, Far, 15000, Far, Far, Far, Far>> }

\* arguments <<dx, dy, sensors>> of direct calls of calculate_velocity
Clear == <<Far, Far, Far, Far, Far, Far, Far>>
NavArgs ==
    { \* no obstacle: one axis zero, both zero, a tie below EPS, a reading
      \* exactly at the threshold, |dx| < |dy|, dx below the universe
      <<50000, 0, Clear>>,
      <<0, 50000, Clear>>,
      <<0, 0, Clear>>,
      <<5, 5, Clear>>,
      <<50000, -10000, <<OBSTACLE_THRESHOLD, Far, Far, Far, Far, Far, Far>>>>,
      <<-22000, 50000, Clear>>,
      <<-250000, 50000, Clear>>,
      <<50000, 50000, Clear>>,
      <<-10000, -50000, Clear>>,
      \* obstacles: front only, left side, rear right just below the threshold
      <<50000, 0, <<Far, Far, 10000, Far, Far, Far, Far>>>>,
      <<10000, 50000, <<15000, 30000, Far, Far, Far, Far, Far>>>>,
      <<0, 5, <<Far, Far, Far, Far, Far, Far, 19999>>>>,
      <<-50000, -20000, <<Far, Far, Far, 5000, 12000, Far, Far>>>>,
      \* a call with 6 readings
      <<50000, 0, <<Far, Far, Far, Far, Far, Far>>>> }

(***************************************************************************)
(* State.                                                                  *)
(***************************************************************************)
VARIABLES
    nav,           \* the NavigationController: input maps of its simulations
    call,          \* the last call of calculate_velocity on nav and what it did
    fresh,         \* what a newly constructed controller returns for that call
    pc,            \* position of main_control_loop
    connection,    \* "none", "open" or "closed"
    base,          \* <<base_x, base_y>>
    current,       \* <<current_x, current_y>>
    sensors,       \* the loop's variable sensors
    delta,         \* <<delta_x, delta_y>>
    velocity,      \* <<vx, vy>> as returned by calculate_velocity
    sent,          \* the commands passed to set_movement_velocity, in order
    cycle,         \* loop iterations begun
    exit,          \* how the loop was left
    odometry_read, \* the odometry was obtained in the current iteration
    sensors_read   \* the sensors were obtained in the current iteration

nav_vars == <<nav, call, fresh>>
loop_vars == <<pc, connection, base, current, sensors, delta, velocity, sent,
               cycle, exit, odometry_read, sensors_read>>
vars == <<nav, call, fresh, pc, connection, base, current, sensors, delta,
          velocity, sent, cycle, exit, odometry_read, sensors_read>>

NoCall == [made |-> FALSE]

\* the record kept of a call
CallRecord(dx, dy, s, o) ==
    [made |-> TRUE, dx |-> dx, dy |-> dy, sensors |-> s,
     raised |-> o.raised, value |-> o.value, mode |-> o.mode,
     computed |-> o.computed, output |-> o.output, adjusted |-> o.adjusted,
     cycle |-> cycle]

\* an entry of sent
Sent(cmd, from) ==
    [cmd |-> cmd, from |-> from, cycle |-> cycle,
     odometry_read |-> odometry_read, sensors_read |-> sensors_read,
     inference_failed |-> call.made /\ ~call.output.ok,
     computed_in |-> IF call.made THEN call.cycle ELSE 0,
     distance |-> IF delta = None THEN "none"
                  ELSE DistanceCompare(delta[1], delta[2])]

(***************************************************************************)
(* Direct calls on one controller (SpecNav).                               *)
(***************************************************************************)
NavInit ==
    /\ \E store \in InputStores : nav = init_control_systems(store)
    /\ call = NoCall
    /\ fresh = None
    /\ pc = "idle"
    /\ connection = "none"
    /\ base = None
    /\ current = None
    /\ sensors = None
    /\ delta = None
    /\ velocity = None
    /\ sent = <<>>
    /\ cycle = 0
    /\ exit = "none"
    /\ odometry_read = FALSE
    /\ sensors_read = FALSE

\* nav.calculate_velocity(dx, dy, *s), and the same call on a controller
\* constructed for it
NavCall ==
    \E a \in NavArgs :
        LET dx == a[1]
            dy == a[2]
            s == a[3]
            o == calculate_velocity(nav, dx, dy, s)
        IN  /\ nav' = o.nav
            /\ call' = CallRecord(dx, dy, s, o)
            /\ fresh' = calculate_velocity(init_control_systems(nav.store),
                                           dx, dy, s).value
            /\ UNCHANGED loop_vars

NavNext == NavCall
SpecNav == NavInit /\ [][NavNext]_vars

(***************************************************************************)
(* main_control_loop (Spec).                                               *)
(***************************************************************************)
\* what requests.get(".../data/odometry") may produce in the loop: a
\* reading, a list of the wrong length, an error
OdometryResponses == LoopOdometry \cup {<<0, 0, 0>>, None}

\* what requests.get(".../data/distancesensorarray") may produce
SensorResponses == SensorArrays \cup {<<Far, Far, Far>>, None}

\* the positions of main_control_loop inside its try block
InTry == {"odom_init", "while", "fetch_odom", "read_sensors", "sleep", "offset",
          "calc", "check", "break", "send"}

Init ==
    /\ \E store \in InputStores : nav = init_control_systems(store)
    /\ call = NoCall
    /\ fresh = None
    /\ pc = "connect"
    /\ connection = "none"
    /\ base = None
    /\ current = None
    /\ sensors = None
    /\ delta = None
    /\ velocity = None
    /\ sent = <<>>
    /\ cycle = 0
    /\ exit = "none"
    /\ odometry_read = FALSE
    /\ sensors_read = FALSE

\* robot_connection = CONNECT() returns a socket
Connect ==
    /\ pc = "connect"
    /\ connection' = "open"
    /\ pc' = "odom_init"
    /\ UNCHANGED <<nav_vars, base, current, sensors, delta, velocity, sent,
                   cycle, exit, odometry_read, sensors_read>>

\* CONNECT() returns None: main_control_loop returns before its try block
ConnectFailed ==
    /\ pc = "connect"
    /\ pc' = "exited"
    /\ exit' = "no_connection"
    /\ UNCHANGED <<nav_vars, connection, base, current, sensors, delta,
                   velocity, sent, cycle, odometry_read, sensors_read>>

\* odom_init = fetch_odometry(); return if it is None, else take the base
OdomInit ==
    /\ pc = "odom_init"
    /\ \E response \in InitialOdometry \cup {None} :
           LET odom_init == fetch_odometry(response)
           IN  IF odom_init = None
               THEN /\ pc' = "finally"
                    /\ exit' = "odom_init_failed"
                    /\ base' = base
               ELSE /\ pc' = "while"
                    /\ exit' = exit
                    /\ base' = <<odom_init[1], odom_init[2]>>
    /\ UNCHANGED <<nav_vars, connection, current, sensors, delta, velocity,
                   sent, cycle, odometry_read, sensors_read>>

\* while True: the next iteration begins, with nothing read in it yet
While ==
    /\ pc = "while"
    /\ cycle < MaxCycles
    /\ cycle' = cycle + 1
    /\ odometry_read' = FALSE
    /\ sensors_read' = FALSE
    /\ pc' = "fetch_odom"
    /\ UNCHANGED <<nav_vars, connection, base, current, sensors, delta,
                   velocity, sent, exit>>

\* current_odom = fetch_odometry(); continue if it is None, else
\* current_x, current_y = current_odom - base
FetchOdometry ==
    /\ pc = "fetch_odom"
    /\ \E response \in OdometryResponses :
           LET current_odom == fetch_odometry(response)
           IN  IF current_odom = None
               THEN /\ odometry_read' = FALSE
                    /\ pc' = "while"
                    /\ UNCHANGED <<current, exit>>
               ELSE /\ odometry_read' = TRUE
                    /\ pc' = "read_sensors"
                    /\ exit' = exit
                    /\ current' = <<current_odom[1] - base[1],
                                    current_odom[2] - base[2]>>
    /\ UNCHANGED <<nav_vars, connection, base, sensors, delta, velocity, sent,
                   cycle, sensors_read>>

\* the odometry response is a list of 7 elements that are not numbers:
\* current_odom[0] - base_x raises TypeError
FetchOdometryMalformed ==
    /\ pc = "fetch_odom"
    /\ fetch_odometry(Malformed) # None
    /\ odometry_read' = TRUE
    /\ pc' = "finally"
    /\ exit' = "exception"
    /\ UNCHANGED <<nav_vars, connection, base, current, sensors, delta,
                   velocity, sent, cycle, sensors_read>>

\* sensors = read_proximity_sensors(); without a reading the iteration
\* goes to time.sleep(1)
ReadSensors_no_continue ==
    /\ pc = "read_sensors"
    /\ \E response \in SensorResponses :
           /\ sensors' = read_proximity_sensors(response)
           /\ sensors_read' = (sensors' # None)
           /\ pc' = "offset"
    /\ UNCHANGED <<nav_vars, connection, base, current, delta, velocity, sent,
                   cycle, exit, odometry_read>>
ReadSensors ==
    /\ pc = "read_sensors"
    /\ \E response \in SensorResponses :
           /\ sensors' = read_proximity_sensors(response)
           /\ sensors_read' = (sensors' # None)
           /\ pc' = IF sensors' = None THEN "sleep" ELSE "offset"
    /\ UNCHANGED <<nav_vars, connection, base, current, delta, velocity, sent,
                   cycle, exit, odometry_read>>

\* time.sleep(1); continue
Sleep ==
    /\ pc = "sleep"
    /\ pc' = "while"
    /\ UNCHANGED <<nav_vars, connection, base, current, sensors, delta,
                   velocity, sent, cycle, exit, odometry_read, sensors_read>>

\* delta_x, delta_y = calculate_position_offset(current_x, current_y)
Offset ==
    /\ pc = "offset"
    /\ delta' = calculate_position_offset(current[1], current[2])
    /\ pc' = "calc"
    /\ UNCHANGED <<nav_vars, connection, base, current, sensors, velocity,
                   sent, cycle, exit, odometry_read, sensors_read>>

\* vx, vy = nav.calculate_velocity(delta_x, delta_y, *sensors)
Calculate ==
    /\ pc = "calc"
    /\ LET d == delta
           o == calculate_velocity(nav, d[1], d[2], sensors)
       IN  /\ nav' = o.nav
           /\ call' = CallRecord(d[1], d[2], sensors, o)
           /\ fresh' = calculate_velocity(init_control_systems(nav.store), d[1], d[2],
                                          sensors).value
           /\ velocity' = o.value
           /\ IF o.raised
              THEN pc' = "finally" /\ exit' = "exception"
              ELSE pc' = "check" /\ exit' = exit
    /\ UNCHANGED <<connection, base, current, sensors, delta, sent, cycle,
                   odometry_read, sensors_read>>

\* KeyboardInterrupt raised while nav.calculate_velocity runs (in its
\* prints, its assignments or compute(); it catches Exception only): the
\* call is left after k of its assignments of inputs, nothing is returned,
\* vx and vy are not bound again, and the except clause handles it
InterruptCalculate ==
    /\ pc = "calc"
    /\ \E k \in 0..Len(InputsAssigned(sensors)) :
           nav' = calculate_velocity_interrupted(nav, delta[1], delta[2],
                                                 sensors, k)
    /\ pc' = "finally"
    /\ exit' = "interrupted"
    /\ UNCHANGED <<call, fresh, connection, base, current, sensors, delta,
                   velocity, sent, cycle, odometry_read, sensors_read>>

\* distance = math.hypot(delta_x, delta_y); if distance <= POINT_TOLERANCE:
\* stop()
CheckDistance ==
    /\ pc = "check"
    /\ \E within \in WithinTolerance(delta[1], delta[2]) :
           IF within
           THEN /\ sent' = Append(sent, Sent(StopCommand, "target"))
                /\ pc' = "break"
           ELSE /\ pc' = "send"
                /\ sent' = sent
    /\ UNCHANGED <<nav_vars, connection, base, current, sensors, delta,
                   velocity, cycle, exit, odometry_read, sensors_read>>

\* print("Задача выполнена"); break
Break ==
    /\ pc = "break"
    /\ pc' = "finally"
    /\ exit' = "done"
    /\ UNCHANGED <<nav_vars, connection, base, current, sensors, delta,
                   velocity, sent, cycle, odometry_read, sensors_read>>

\* the clamp, set_movement_velocity(vx, vy, 0) and time.sleep(0.02)
SendVelocity ==
    /\ pc = "send"
    /\ sent' = Append(sent, Sent(MovementCommand(velocity[1], velocity[2]), "loop"))
    /\ pc' = "while"
    /\ UNCHANGED <<nav_vars, connection, base, current, sensors, delta,
                   velocity, cycle, exit, odometry_read, sensors_read>>

\* KeyboardInterrupt raised inside the try block (also inside a call made
\* there: set_movement_velocity, CONNECT and the fetches catch Exception
\* only), handled by the except clause
Interrupt ==
    /\ pc \in InTry
    /\ pc' = "finally"
    /\ exit' = "interrupted"
    /\ UNCHANGED <<nav_vars, connection, base, current, sensors, delta,
                   velocity, sent, cycle, odometry_read, sensors_read>>

\* KeyboardInterrupt raised before the try block is entered, while CONNECT()
\* runs or after it has returned the socket: it leaves main_control_loop
InterruptBeforeTry ==
    /\ pc = "connect"
    /\ \E c \in {"none", "open"} : connection' = c
    /\ pc' = "aborted"
    /\ UNCHANGED <<nav_vars, base, current, sensors, delta, velocity, sent,
                   cycle, exit, odometry_read, sensors_read>>

\* finally: stop()
FinallyStop ==
    /\ pc = "finally"
    /\ sent' = Append(sent, Sent(StopCommand, "finally"))
    /\ pc' = "close"
    /\ UNCHANGED <<nav_vars, connection, base, current, sensors, delta,
                   velocity, cycle, exit, odometry_read, sensors_read>>

\* finally: robot_connection.close()
FinallyClose ==
    /\ pc = "close"
    /\ connection' = "closed"
    /\ pc' = "exited"
    /\ UNCHANGED <<nav_vars, base, current, sensors, delta, velocity, sent,
                   cycle, exit, odometry_read, sensors_read>>

\* KeyboardInterrupt raised inside the finally block, before stop() has
\* passed its command on, or after that and before close() is done: it
\* leaves main_control_loop and the rest of the block is skipped
InterruptFinally ==
    /\ pc \in {"finally", "close"}
    /\ pc' = "aborted"
    /\ UNCHANGED <<nav_vars, connection, base, current, sensors, delta,
                   velocity, sent, cycle, exit, odometry_read, sensors_read>>

Next ==
    \/ Connect
    \/ ConnectFailed
    \/ OdomInit
    \/ While
    \/ FetchOdometry
    \/ FetchOdometryMalformed
    \/ ReadSensors
    \/ Sleep
    \/ Offset
    \/ Calculate
    \/ InterruptCalculate
    \/ CheckDistance
    \/ Break
    \/ SendVelocity
    \/ Interrupt
    \/ InterruptBeforeTry
    \/ FinallyStop
    \/ FinallyClose
    \/ InterruptFinally

Spec == Init /\ [][Next]_vars

(***************************************************************************)
(* Properties of calculate_velocity, checked under SpecNav.                *)
(***************************************************************************)
Zero2 == <<RatZero, RatZero>>

\* the smallest element of a non-empty sequence of numbers
SeqMin(s) == CHOOSE m \in {s[i] : i \in DOMAIN s} : \A i \in DOMAIN s : m <= s[i]

\* the last call was made with 7 readings
Called == call.made /\ Len(call.sensors) = 7

\* C1: _has_obstacles(sensors) is true if and only if the minimum of the
\* readings is strictly below OBSTACLE_THRESHOLD, and the branch taken by
\* calculate_velocity follows it; a minimum of exactly 0.20 is no obstacle.
C1_HasObstaclesStrict ==
    Called =>
        /\ has_obstacles(call.sensors) <=> SeqMin(call.sensors) < OBSTACLE_THRESHOLD
        /\ call.mode = "obstacle" <=> SeqMin(call.sensors) < OBSTACLE_THRESHOLD
        /\ SeqMin(call.sensors) = OBSTACLE_THRESHOLD => call.mode = "goal"

\* a call whose smallest reading is exactly the threshold took the goal branch
C1_Witness ==
    /\ Called
    /\ SeqMin(call.sensors) = OBSTACLE_THRESHOLD
    /\ call.mode = "goal"

\* C2: every call with 7 readings calls compute() on exactly one rule set:
\* with a reading below the threshold the obstacle set, fed the 7 sensors
\* and dy, whose output is returned as it is; otherwise the goal set, fed
\* dx and dy, whose output goes through _adjust_speeds.
C2_ExactlyOneRuleSet ==
    Called =>
        /\ ~call.raised
        /\ Cardinality(call.computed) = 1
        /\ IF \E i \in 1..7 : call.sensors[i] < OBSTACLE_THRESHOLD
           THEN /\ call.computed = {"obstacle"}
                /\ \A i \in 1..7 : nav.obstacle_sim[Sensors[i]] =
                       <<ClipToUniverse(Sensors[i], call.sensors[i])>>
                /\ nav.obstacle_sim["position_y"] =
                       <<ClipToUniverse("position_y", call.dy)>>
                /\ ~call.adjusted
                /\ call.output.ok =>
                       call.value = <<call.output.velocity_x, call.output.velocity_y>>
           ELSE /\ call.computed = {"goal"}
                /\ nav.goal_sim["position_x"] = <<ClipToUniverse("position_x", call.dx)>>
                /\ nav.goal_sim["position_y"] = <<ClipToUniverse("position_y", call.dy)>>
                /\ call.output.ok =>
                       /\ call.adjusted
                       /\ call.value = adjust_speeds(call.dx, call.dy,
                              call.output.velocity_x, call.output.velocity_y)

\* an obstacle call on a controller whose goal simulation was used before
C2_Witness ==
    /\ Called
    /\ call.computed = {"obstacle"}
    /\ nav.goal_sim["position_x"] # None

\* C7: for dx = 0.5, dy = 0 and only the front sensor at 0.10 the obstacle
\* set is engaged, some rule fires, and the result has vx < 0 or vy # 0.
C7_FrontObstacleEvades ==
    ( /\ call.made
      /\ call.dx = 50000
      /\ call.dy = 0
      /\ call.sensors = <<Far, Far, 10000, Far, Far, Far, Far>> ) =>
        /\ call.mode = "obstacle"
        /\ call.output.ok
        /\ RatLess(call.value[1], RatZero) \/ call.value[2] # RatZero

\* C9: in goal mode the weaker axis's raw output is multiplied by
\* scale = min(|dx|,|dy|) / max(|dx|,|dy|,1e-4), which lies in [0,1]: vy when
\* |dx| > |dy|, otherwise vx; the other component is unchanged; both are
\* clamped to [-0.3, 0.3].  So dy = 0, dx # 0 gives vy = 0 and dx = 0 gives
\* vx = 0.
C9_WeakerAxisScaled ==
    (Called /\ call.mode = "goal" /\ call.output.ok) =>
        LET a == Abs(call.dx)
            b == Abs(call.dy)
            vx == call.output.velocity_x
            vy == call.output.velocity_y
            scale == Rat(Min2(a, b), Max2(Max2(a, b), EPS))
            clamp(v) == IF RatLess(v, RatInt(-30)) THEN RatInt(-30)
                        ELSE IF RatLess(RatInt(30), v) THEN RatInt(30) ELSE v
        IN  /\ RatLeq(RatZero, scale) /\ RatLeq(scale, RatInt(1))
            /\ a > b => call.value = <<clamp(vx), clamp(RatMul(vy, scale))>>
            /\ a <= b => call.value = <<clamp(RatMul(vx, scale)), clamp(vy)>>
            /\ (call.dy = 0 /\ call.dx # 0) => call.value[2] = RatZero
            /\ call.dx = 0 => call.value[1] = RatZero

\* a tie below 1e-4: both axes get the same raw output and vx is halved
C9_Witness ==
    /\ Called
    /\ call.mode = "goal"
    /\ call.output.ok
    /\ call.dx = 5
    /\ call.dy = 5
    /\ call.output.velocity_x # RatZero
    /\ call.value = <<RatMul(call.output.velocity_x, Rat(1, 2)),
                      call.output.velocity_y>>

\* C10: the value a call returns is the value a newly constructed
\* controller returns for the same arguments, whatever calls came before.
C10_NoStateAcrossCalls == call.made => call.value = fresh

(***************************************************************************)
(* Properties of main_control_loop, checked under Spec.                    *)
(***************************************************************************)
\* the commands sent in iteration c
SentIn(c) == {i \in DOMAIN sent : sent[i].cycle = c}

\* the current iteration ended, or is ending, in a retry
Retrying ==
    /\ cycle > 0
    /\ \/ pc = "sleep"
       \/ pc = "while" /\ ~(odometry_read /\ sensors_read)

\* C3: an iteration whose distance to the target is within the
\* tolerance ends the loop with exit "done" whether or not the sensors were
\* read, and exactly one stop command is sent for that termination.
C3_TargetAlwaysDoneSingleStop ==
    /\ pc = "sleep" =>
           LET d == calculate_position_offset(current[1], current[2])
           IN  DistanceCompare(d[1], d[2]) # "less"
    /\ (pc = "exited" /\ exit = "done") =>
           Cardinality({i \in SentIn(cycle) : sent[i].cmd = StopCommand}) = 1

\* C4: once the try block has been entered with a connection, every way
\* out of main_control_loop ends with the connection closed and a stop
\* command of the finally block as the last command sent, and nothing is
\* sent afterwards.
C4_ExitStopsAndCloses ==
    /\ exit \notin {"none", "no_connection"} =>
           pc \in {"finally", "close", "exited", "aborted"}
    /\ (pc \in {"exited", "aborted"} /\ exit \notin {"none", "no_connection"}) =>
           /\ connection = "closed"
           /\ Len(sent) >= 1
           /\ sent[Len(sent)].cmd = StopCommand
           /\ sent[Len(sent)].from = "finally"
    /\ connection = "closed" => pc = "exited"
    /\ \A i \in DOMAIN sent : sent[i].from = "finally" => i = Len(sent)

\* C5: every command sent has vx and vy in [-0.30, 0.30] and omega = 0.
C5_CommandsWellFormed ==
    \A i \in DOMAIN sent :
        /\ RatLeq(RatInt(-MAX_VELOCITY), sent[i].cmd[1])
        /\ RatLeq(sent[i].cmd[1], RatInt(MAX_VELOCITY))
        /\ RatLeq(RatInt(-MAX_VELOCITY), sent[i].cmd[2])
        /\ RatLeq(sent[i].cmd[2], RatInt(MAX_VELOCITY))
        /\ sent[i].cmd[3] = 0

\* velocities of the goal set (non-zero on both axes) and of the failure
\* fallback were sent in one run
C5_Witness ==
    /\ \E i \in DOMAIN sent :
           /\ sent[i].from = "loop"
           /\ ~sent[i].inference_failed
           /\ sent[i].cmd[1] # RatZero
           /\ sent[i].cmd[2] # RatZero
    /\ \E i \in DOMAIN sent :
           /\ sent[i].from = "loop"
           /\ sent[i].inference_failed

\* C6: an iteration in which the odometry or the sensors were not obtained
\* computes no velocity and sends nothing; a velocity is computed and sent
\* only with an odometry reading and a sensor reading of the same iteration.
C6_FailedReadSkipsCycle ==
    /\ pc \in {"offset", "calc", "check", "break", "send"} =>
           odometry_read /\ sensors_read
    /\ Retrying =>
           /\ SentIn(cycle) = {}
           /\ ~(call.made /\ call.cycle = cycle)
    /\ \A i \in DOMAIN sent :
           sent[i].from \in {"loop", "target"} =>
               /\ sent[i].odometry_read
               /\ sent[i].sensors_read
               /\ sent[i].computed_in = sent[i].cycle

\* the second iteration failed to read the sensors after the first one
\* had sent a velocity
C6_Witness ==
    /\ pc = "while"
    /\ cycle = 2
    /\ odometry_read
    /\ ~sensors_read
    /\ \E i \in SentIn(1) : sent[i].from = "loop"
    /\ SentIn(2) = {}

\* C8 as stated: a call with 7 readings whose inference fails returns
\* (0, 0) without raising, and the loop then sends zero velocity from its
\* send step and goes on to the next iteration.
C8_FailureZeroAndContinue ==
    /\ Called => ~call.raised /\ (~call.output.ok => call.value = Zero2)
    /\ \A i \in DOMAIN sent :
           (sent[i].inference_failed /\ sent[i].from # "finally") =>
               /\ sent[i].cmd = StopCommand
               /\ sent[i].from = "loop"

\* C8, amended: such a call returns (0, 0) without raising; the loop then
\* sends zero velocity: from its send step, going on to the next iteration,
\* when the target is farther than the tolerance, and from the target
\* branch, leaving the loop, when it is within the tolerance.
C8_FailureZeroThenContinueOrDone ==
    /\ Called => ~call.raised /\ (~call.output.ok => call.value = Zero2)
    /\ (pc \in {"check", "send"} /\ ~call.output.ok) => velocity = Zero2
    /\ \A i \in DOMAIN sent :
           (sent[i].inference_failed /\ sent[i].from # "finally") =>
               /\ sent[i].cmd = StopCommand
               /\ sent[i].distance = "less" => sent[i].from = "target"
               /\ sent[i].distance = "greater" => sent[i].from = "loop"
               /\ sent[i].from = "target" =>
                      \/ pc \in {"break", "finally", "close", "exited", "aborted"}
                      \/ sent[i].cycle < cycle
               /\ sent[i].from = "loop" => exit # "done" \/ sent[i].cycle < cycle

\* inference failed in the first iteration, zero velocity was sent and the
\* loop is in its second iteration
C8_Witness ==
    /\ cycle = 2
    /\ pc = "read_sensors"
    /\ \E i \in SentIn(1) :
           /\ sent[i].inference_failed
           /\ sent[i].from = "loop"
           /\ sent[i].cmd = StopCommand

(***************************************************************************)
(* Properties of the obstacle rule base, checked under SpecNav.            *)
(***************************************************************************)
\* C11: the variables read by the antecedents of the obstacle rules are
\* the 7 sensors and position_y, and after _avoid_obstacles has assigned
\* its inputs each of them holds a value, so that compute() does not fail
\* for a missing input.
C11_ObstacleInputsAllSet ==
    (Called /\ call.mode = "obstacle") =>
        /\ SystemAntecedents(obstacle_rules) = SensorNames \cup {"position_y"}
        /\ \A v \in SystemAntecedents(obstacle_rules) : nav.obstacle_sim[v] # None
        /\ ~call.output.ok =>
               call.output.error # "All antecedents must have input values!"

\* the terms of an antecedent expression
RECURSIVE Leaves(_)
Leaves(e) ==
    IF e.op = "term" THEN {e}
    ELSE Leaves(e.left) \cup Leaves(e.right)

\* the places in obstacle_rules of the rules "with exit left" and "with
\* exit right": a sensor pattern, a far side and a near side of position_y
ExitRules == {1, 2, 5, 6, 15, 16, 22, 23}

\* C12: with the inputs of an obstacle call, each rule "with exit left" or
\* "with exit right" fires with strength min(sensor terms, max(far side,
\* near side)), and so with positive strength only when every one of its
\* sensor terms has positive degree.
C12_ExitRuleStrength ==
    (Called /\ call.mode = "obstacle") =>
        \A k \in ExitRules :
            LET e == obstacle_rules[k].antecedent
                input == nav.obstacle_sim
                deg(t) == Fuzzify(t.var, t.label, input[t.var][1])
                sensor_terms == {t \in Leaves(e) : t.var \in SensorNames}
                side_terms == {t \in Leaves(e) : t.var = "position_y"}
                sensor_min == CHOOSE m \in {deg(t) : t \in sensor_terms} :
                                  \A t \in sensor_terms : m <= deg(t)
                side_max == CHOOSE m \in {deg(t) : t \in side_terms} :
                                \A t \in side_terms : m >= deg(t)
            IN  /\ Cardinality(side_terms) = 2
                /\ Firing(e, input) = Min2(sensor_min, side_max)
                /\ Firing(e, input) > 0 => \A t \in sensor_terms : deg(t) > 0

\* left and right exchanged in a variable's name
MirrorVar(v) ==
    CASE v = "left_front"  -> "right_front"
      [] v = "right_front" -> "left_front"
      [] v = "left_rear"   -> "right_rear"
      [] v = "right_rear"  -> "left_rear"
      [] v = "back_left"   -> "back_right"
      [] v = "back_right"  -> "back_left"
      [] OTHER             -> v

\* left and right exchanged in a label of position_y or velocity_y
MirrorLabel(v, l) ==
    IF v \notin {"position_y", "velocity_y"} THEN l
    ELSE CASE l = "far_left"   -> "far_right"
           [] l = "far_right"  -> "far_left"
           [] l = "near_left"  -> "near_right"
           [] l = "near_right" -> "near_left"
           [] l = "left_fast"  -> "right_fast"
           [] l = "left_med"   -> "right_med"
           [] l = "left_slow"  -> "right_slow"
           [] l = "right_fast" -> "left_fast"
           [] l = "right_med"  -> "left_med"
           [] l = "right_slow" -> "left_slow"
           [] OTHER            -> l

RECURSIVE MirrorExpr(_)
MirrorExpr(e) ==
    IF e.op = "term" THEN Term(MirrorVar(e.var), MirrorLabel(e.var, e.label))
    ELSE [op |-> e.op, left |-> MirrorExpr(e.left), right |-> MirrorExpr(e.right)]

MirrorRule(r) ==
    Rule(MirrorExpr(r.antecedent),
         [j \in DOMAIN r.consequent |->
             <<r.consequent[j][1],
               MirrorLabel(r.consequent[j][1], r.consequent[j][2])>>])

\* an expression up to the order and grouping of the operands of & and of |
RECURSIVE Norm(_), Flat(_, _)
Norm(e) ==
    IF e.op = "term"
    THEN [op |-> "term", var |-> e.var, label |-> e.label, args |-> {}]
    ELSE [op |-> e.op, var |-> "", label |-> "", args |-> Flat(e, e.op)]
Flat(e, op) ==
    IF e.op = op THEN Flat(e.left, op) \cup Flat(e.right, op) ELSE {Norm(e)}

SameRule(r, q) ==
    /\ Norm(r.antecedent) = Norm(q.antecedent)
    /\ {r.consequent[j] : j \in DOMAIN r.consequent} =
           {q.consequent[j] : j \in DOMAIN q.consequent}

\* C13: the mirror image of every obstacle rule (left and right sensors,
\* position_y labels and velocity_y labels exchanged) is an obstacle rule;
\* the "rear blocked, exit right" rule commands right_med where the "rear
\* blocked, exit left" rule commands left_med.
C13_MirrorSymmetric ==
    call.made =>
        /\ \A k \in DOMAIN obstacle_rules :
               \E j \in DOMAIN obstacle_rules :
                   SameRule(MirrorRule(obstacle_rules[k]), obstacle_rules[j])
        /\ obstacle_rules[15].consequent[2] = VY("left_med")
        /\ obstacle_rules[16].consequent[2] = VY("right_med")

=============================================================================
